---------------------------- MODULE Spec2Model ----------------------------
(***************************************************************************)
(* The signup demo form of                                                 *)
(* src/components/partials/documentation/DocumentationDemoFormValidation.vue *)
(*                                                                         *)
(* The component declares a zod schema (lines 14-49), creates a            *)
(* vee-validate form context over it with initial values (lines 53-64),    *)
(* keeps one ref, loading (line 66), and wraps its asynchronous submission *)
(* handler in handleSubmit (lines 69-85).                                  *)
(*                                                                         *)
(* Encoding of the JavaScript values:                                      *)
(*   - a string is the sequence of its characters (one-character TLA+      *)
(*     strings); `undefined` in a string field is the one-element sequence *)
(*     <<"undefined">>, which is no sequence of characters;                *)
(*   - a Date is <<t>>, t its getTime() in clock ticks; null is <<>>;      *)
(*   - an array of strings is a sequence of TLA+ strings;                  *)
(*   - time is counted in ticks of TickMs milliseconds.                    *)
(***************************************************************************)
EXTENDS Integers, Sequences, FiniteSets, TLC

VARIABLES
    values,      \* the form context's field values (useForm, line 53)
    maxDate,     \* the value of `new Date()` captured when the schema was built (line 33)
    now,         \* the wall clock, in ticks
    loading,     \* const loading = ref(false) (line 66)
    runs,        \* handler invocations suspended in `await sleep(1600)` (line 74), oldest first
    notified,    \* number of notyf.success calls so far (line 83)
    emailErrors, \* number of setFieldError('email', ...) calls so far (line 77)
    scrolls,     \* number of scrollTo('#email') calls so far (line 78)
    event        \* what the most recent step did that an observer can see

vars == <<values, maxDate, now, loading, runs, notified, emailErrors, scrolls, event>>

-----------------------------------------------------------------------------
(* Bounds of the model *)

\* the clock runs from 0 to MaxTime ticks
MaxTime == 3
\* one tick of the clock, in milliseconds
TickMs == 800
\* handler invocations that get past validation in one behaviour
MaxRuns == 2
\* the longest password typed
MaxPwLen == 9

(* Constants of the program *)

\* sleep(1600), line 74
SleepMs == 1600
\* .min(8, ...), line 26
MinPasswordLen == 8
\* .min(2, ...), line 41
MinInterests == 2
\* .max(3, ...), line 42
MaxInterests == 3

-----------------------------------------------------------------------------
(* Strings *)

Undefined == <<"undefined">>
Null == <<>>

RECURSIVE Rep(_, _)
Rep(c, n) == IF n = 0 THEN <<>> ELSE <<c>> \o Rep(c, n - 1)

\* 'awesome@cssninja.io', line 76
AwesomeEmail ==
    <<"a","w","e","s","o","m","e","@","c","s","s","n","i","n","j","a",".","i","o">>

\* the messages of the schema and of the handler
MsgEmailRequired == "Enter your email first"
MsgEmailInvalid == "A valid email address should be provided"
MsgPasswordRequired == "Enter your password to sign in"
MsgPasswordMin == "Your password should contains at least 8 characters"
MsgStringRequired == "Required"
MsgBirthdateMax == "You cannot be born in the future"
MsgAgreeTerms == "You must agree our terms of service"
MsgInterestsMin == "You must select at least 2 terms of service"
MsgInterestsMax == "You can select up to 3 terms of service"
MsgPasswordCheck == "The confirmation does not match the password"
MsgEmailTaken == "This email is already taken! Tip: use awesome@cssninja.io"
MsgSignedUp == "You have successfully signed up!"

\* the options of the interests select, lines 147-155
Options ==
    << "Food", "Home Appliances", "Computer & Office", "Home Improvement",
       "Home & Garden", "Sports & Entertainment", "Toys & Hobbies",
       "Security & Protection", "Lights & Lighting" >>

-----------------------------------------------------------------------------
(* The email format of zod's .email() check (line 21), case-insensitive.    *)
(* The address has exactly one "@".  Before it: one or more of letters,     *)
(* digits and _ ' + - . , the last of them not a dot or a quote.  After it: *)
(* one or more labels, each a letter or digit followed by letters, digits   *)
(* or hyphens and closed by a dot, then two or more letters.  The address   *)
(* does not start with a dot and holds no two dots in a row.                *)

Letters ==
    { "a","b","c","d","e","f","g","h","i","j","k","l","m",
      "n","o","p","q","r","s","t","u","v","w","x","y","z",
      "A","B","C","D","E","F","G","H","I","J","K","L","M",
      "N","O","P","Q","R","S","T","U","V","W","X","Y","Z" }
Digits == { "0","1","2","3","4","5","6","7","8","9" }
LocalChars == Letters \cup Digits \cup { "_", "'", "+", "-", "." }
LocalLast == Letters \cup Digits \cup { "_", "+", "-" }
LabelFirst == Letters \cup Digits
LabelRest == Letters \cup Digits \cup { "-" }

\* the part after the "@": labels closed by dots, then the top-level domain
IsEmailDomain(d) ==
    LET dots == { i \in 1..Len(d) : d[i] = "." }
    IN  /\ dots # {}
        /\ LET last == CHOOSE i \in dots : \A j \in dots : j <= i
           IN  /\ Len(d) - last >= 2
               /\ \A i \in (last + 1)..Len(d) : d[i] \in Letters
               /\ d[1] # "."
               /\ \A i \in 1..last :
                     IF d[i] = "."
                     THEN i > 1 /\ d[i - 1] # "."
                     ELSE IF i = 1 \/ d[i - 1] = "."
                          THEN d[i] \in LabelFirst
                          ELSE d[i] \in LabelRest

IsEmail(s) ==
    LET ats == { i \in 1..Len(s) : s[i] = "@" }
    IN  /\ Cardinality(ats) = 1
        /\ LET at == CHOOSE i \in ats : TRUE
           IN  /\ at > 1
               /\ s[1] # "."
               /\ \A i \in 1..(Len(s) - 1) : ~(s[i] = "." /\ s[i + 1] = ".")
               /\ \A i \in 1..(at - 1) : s[i] \in LocalChars
               /\ s[at - 1] \in LocalLast
               /\ IsEmailDomain(SubSeq(s, at + 1, Len(s)))

-----------------------------------------------------------------------------
(* The schema, lines 14-49.  Each field parser yields a status and the      *)
(* messages of its issues, as zod does: a value of the wrong type aborts    *)
(* (status "aborted"), a failed check leaves the value in place and marks   *)
(* the result "dirty".                                                      *)

Parsed(status, issues) == [status |-> status, issues |-> issues]

\* email: zod.string({required_error}).email(message), lines 17-21
ParseEmail(v) ==
    IF v = Undefined THEN Parsed("aborted", <<MsgEmailRequired>>)
    ELSE IF ~IsEmail(v) THEN Parsed("dirty", <<MsgEmailInvalid>>)
    ELSE Parsed("valid", <<>>)

\* a password parser whose minimum is one character short
ParsePasswordShortMin(v) ==
    IF v = Undefined THEN Parsed("aborted", <<MsgPasswordRequired>>)
    ELSE IF Len(v) < MinPasswordLen - 1 THEN Parsed("dirty", <<MsgPasswordMin>>)
    ELSE Parsed("valid", <<>>)

\* password: zod.string({required_error}).min(8, message), lines 22-26
ParsePassword(v) ==
    IF v = Undefined THEN Parsed("aborted", <<MsgPasswordRequired>>)
    ELSE IF Len(v) < MinPasswordLen THEN Parsed("dirty", <<MsgPasswordMin>>)
    ELSE Parsed("valid", <<>>)

\* passwordCheck: zod.string(), line 27
ParsePasswordCheck(v) ==
    IF v = Undefined THEN Parsed("aborted", <<MsgStringRequired>>)
    ELSE Parsed("valid", <<>>)

\* birthdate: zod.date({...}).max(new Date(), message).nullable(), lines 28-34.
\* The field holds null or a Date; max compares getTime() with the bound fixed
\* when the schema was built.
ParseBirthdate(v, max) ==
    IF v = Null THEN Parsed("valid", <<>>)
    ELSE IF v[1] > max THEN Parsed("dirty", <<MsgBirthdateMax>>)
    ELSE Parsed("valid", <<>>)

\* an agreeTerms parser without its refinement
ParseAgreeTermsUnrefined(v) == Parsed("valid", <<>>)

\* agreeTerms: zod.boolean().refine((value) => value, message), lines 35-37
ParseAgreeTerms(v) ==
    IF ~v THEN Parsed("dirty", <<MsgAgreeTerms>>) ELSE Parsed("valid", <<>>)

\* an interests parser whose maximum is one entry too many
ParseInterestsWideMax(v) ==
    LET tooFew == IF Len(v) < MinInterests THEN <<MsgInterestsMin>> ELSE <<>>
        tooMany == IF Len(v) > MaxInterests + 1 THEN <<MsgInterestsMax>> ELSE <<>>
        issues == tooFew \o tooMany
    IN  Parsed(IF issues = <<>> THEN "valid" ELSE "dirty", issues)

\* interests: zod.string().array().min(2, message).max(3, message), lines 38-42
ParseInterests(v) ==
    LET tooFew == IF Len(v) < MinInterests THEN <<MsgInterestsMin>> ELSE <<>>
        tooMany == IF Len(v) > MaxInterests THEN <<MsgInterestsMax>> ELSE <<>>
        issues == tooFew \o tooMany
    IN  Parsed(IF issues = <<>> THEN "valid" ELSE "dirty", issues)

\* emailOptin: zod.boolean(), line 43
ParseEmailOptin(v) == Parsed("valid", <<>>)

FieldNames ==
    { "email", "password", "passwordCheck", "birthdate", "agreeTerms",
      "interests", "emailOptin" }

\* zod.object({...}), lines 16-44: every field is parsed
ParseFields(v, max) ==
    [ f \in FieldNames |->
        CASE f = "email" -> ParseEmail(v.email)
          [] f = "password" -> ParsePassword(v.password)
          [] f = "passwordCheck" -> ParsePasswordCheck(v.passwordCheck)
          [] f = "birthdate" -> ParseBirthdate(v.birthdate, max)
          [] f = "agreeTerms" -> ParseAgreeTerms(v.agreeTerms)
          [] f = "interests" -> ParseInterests(v.interests)
          [] f = "emailOptin" -> ParseEmailOptin(v.emailOptin) ]

\* a refinement that compares the lengths only
PasswordsSameLength(v) == Len(v.password) = Len(v.passwordCheck)

\* .refine((data) => data.password === data.passwordCheck, ...), line 45
PasswordsMatch(v) == v.password = v.passwordCheck

\* the object with its refinement, lines 15-48, as toTypedSchema reports it
\* (line 14): the messages of the issues, grouped by the path of each issue.
\* The refinement runs unless a field aborted; its issue goes to the path
\* ['passwordCheck'] (line 47).
validationSchema(v, max) ==
    LET parsed == ParseFields(v, max)
        aborted == \E f \in FieldNames : parsed[f].status = "aborted"
        refinement == [ f \in FieldNames |->
            IF f = "passwordCheck" /\ ~aborted /\ ~PasswordsMatch(v)
            THEN <<MsgPasswordCheck>> ELSE <<>> ]
    IN  [ f \in FieldNames |-> parsed[f].issues \o refinement[f] ]

NoErrors == [ f \in FieldNames |-> <<>> ]

\* the result of validation is valid when no path has an error
IsValid(errors) == errors = NoErrors

-----------------------------------------------------------------------------
(* The form context, lines 53-64, and the ref of line 66 *)

\* initialValues, lines 55-63
initialValues ==
    [ email |-> <<>>, password |-> <<>>, passwordCheck |-> <<>>,
      birthdate |-> Null, interests |-> <<>>, agreeTerms |-> FALSE,
      emailOptin |-> FALSE ]

\* What a step shows: the errors it put on the fields, the scroll target, the
\* notification, and for a handler run the email it was called with.
Event(kind, errors, scrollTo, notice, email) ==
    [ kind |-> kind, errors |-> errors, scrollTo |-> scrollTo,
      notice |-> notice, email |-> email ]

NoEvent == Event("none", NoErrors, "", "", <<>>)

\* handler invocations that got past validation and the loading guard
Started == notified + emailErrors + Len(runs)

Init ==
    /\ values = initialValues
    /\ now = 0
    /\ maxDate = now
    /\ loading = FALSE
    /\ runs = <<>>
    /\ notified = 0
    /\ emailErrors = 0
    /\ scrolls = 0
    /\ event = NoEvent

-----------------------------------------------------------------------------
(* What the user types and selects, lines 90-183 *)

\* the first k options selected
Selected(k) == SubSeq(Options, 1, k)

EmailEdits == { <<>>, <<"a","@","b",".","c","o">>, AwesomeEmail }
PasswordEdits == { <<>>, Rep("p", MinPasswordLen) }
BirthdateEdits == { Null } \cup { <<t>> : t \in 0..MaxTime }
InterestsEdits == { Selected(k) : k \in { 0, MinInterests, MaxInterests + 1 } }

SetField(f, v) ==
    /\ values' = [values EXCEPT ![f] = v]
    /\ event' = NoEvent
    /\ UNCHANGED <<maxDate, now, loading, runs, notified, emailErrors, scrolls>>

\* VField id="email", lines 90-97
SetEmail == \E v \in EmailEdits : SetField("email", v)
\* VField id="password", lines 98-105
SetPassword == \E v \in PasswordEdits : SetField("password", v)
\* VField id="passwordCheck", lines 106-113
SetPasswordCheck == \E v \in PasswordEdits : SetField("passwordCheck", v)
\* VField id="birthdate", lines 114-138
SetBirthdate == \E v \in BirthdateEdits : SetField("birthdate", v)
\* VField id="interests", lines 139-165
SetInterests == \E v \in InterestsEdits : SetField("interests", v)
\* VField id="agreeTerms", lines 166-176
SetAgreeTerms == \E v \in BOOLEAN : SetField("agreeTerms", v)
\* VField id="emailOptin", lines 177-183
SetEmailOptin == \E v \in BOOLEAN : SetField("emailOptin", v)

\* the Reset button, line 186: the form goes back to its initial values
handleReset ==
    /\ values' = initialValues
    /\ event' = NoEvent
    /\ UNCHANGED <<maxDate, now, loading, runs, notified, emailErrors, scrolls>>

-----------------------------------------------------------------------------
(* handleSignup, lines 69-85 *)

\* a handler without its guard
LoadingGuardDropped == FALSE

\* if (loading.value) return, line 70
LoadingGuard == loading

\* the email read from the form context's values (line 53) when the handler
\* resumes, instead of from the handler's own parameter
FormEmail(run) == values.email

\* values.email inside the handler, line 76: `values` is the handler's parameter
\* (line 69), the validated values the handler was called with
SubmittedEmail(run) == run.email

\* values.email !== 'awesome@cssninja.io', line 76
EmailTaken(email) == email # AwesomeEmail

\* sleep(1600) is over for a run started at `start`, line 74
SleepOver(start) == (now - start) * TickMs >= SleepMs

\* The submit event, line 89: handleSubmit validates the values against the
\* schema and calls the handler only when they are valid.  Validation and the
\* handler up to its await run without another event in between.
Submit ==
    /\ Started < MaxRuns
    /\ LET errors == validationSchema(values, maxDate)
       IN  \/ /\ ~IsValid(errors)
              /\ event' = Event("invalid", errors, "", "", <<>>)
              /\ UNCHANGED <<loading, runs>>
           \/ /\ IsValid(errors)
              /\ LoadingGuard
              /\ event' = Event("busy", errors, "", "", values.email)
              /\ UNCHANGED <<loading, runs>>
           \/ /\ IsValid(errors)
              /\ ~LoadingGuard
              /\ loading' = TRUE
              /\ runs' = Append(runs, [email |-> values.email, start |-> now])
              /\ event' = Event("started", errors, "", "", values.email)
    /\ UNCHANGED <<values, maxDate, now, notified, emailErrors, scrolls>>

\* The handler after its await, lines 76-84: the oldest sleep is over.
Resume ==
    /\ runs # <<>>
    /\ SleepOver(Head(runs).start)
    /\ LET email == SubmittedEmail(Head(runs))
       IN  \/ /\ EmailTaken(email)
              /\ emailErrors' = emailErrors + 1
              /\ scrolls' = scrolls + 1
              /\ event' = Event("taken", [NoErrors EXCEPT !["email"] = <<MsgEmailTaken>>],
                                "#email", "", email)
              /\ UNCHANGED notified
           \/ /\ ~EmailTaken(email)
              /\ notified' = notified + 1
              /\ event' = Event("success", NoErrors, "", MsgSignedUp, email)
              /\ UNCHANGED <<emailErrors, scrolls>>
    /\ loading' = FALSE
    /\ runs' = Tail(runs)
    /\ UNCHANGED <<values, maxDate, now>>

\* time passes
Tick ==
    /\ now < MaxTime
    /\ now' = now + 1
    /\ event' = NoEvent
    /\ UNCHANGED <<values, maxDate, loading, runs, notified, emailErrors, scrolls>>

Next ==
    \/ SetEmail
    \/ SetPassword
    \/ SetPasswordCheck
    \/ SetBirthdate
    \/ SetInterests
    \/ SetAgreeTerms
    \/ SetEmailOptin
    \/ handleReset
    \/ Submit
    \/ Resume
    \/ Tick

Spec == Init /\ [][Next]_vars

-----------------------------------------------------------------------------
(* Validation alone: the schema applied to every form drawn from the input  *)
(* sets below, by one submit of that form.                                  *)

EmailInputs ==
    { <<>>, <<"a">>, <<"a","@","b">>, <<"a","@","b",".","c","o">>,
      <<"a",".","@","b",".","c","o">>, AwesomeEmail }
PasswordInputs == { Rep("p", n) : n \in 0..MaxPwLen }
PasswordCheckInputs ==
    { <<>>, Rep("p", MinPasswordLen - 1), Rep("p", MinPasswordLen),
      Rep("p", MinPasswordLen - 1) \o <<"q">> }
InterestsInputs == { Selected(k) : k \in 0..Len(Options) }

FormInputs ==
    [ email : EmailInputs, password : PasswordInputs,
      passwordCheck : PasswordCheckInputs, birthdate : BirthdateEdits,
      interests : InterestsInputs, agreeTerms : BOOLEAN, emailOptin : BOOLEAN ]

SchemaInit ==
    /\ values \in FormInputs
    /\ now = 0
    /\ maxDate = now
    /\ loading = FALSE
    /\ runs = <<>>
    /\ notified = 0
    /\ emailErrors = 0
    /\ scrolls = 0
    /\ event = NoEvent

SchemaNext == Submit

SchemaSpec == SchemaInit /\ [][SchemaNext]_vars

-----------------------------------------------------------------------------
(* Properties *)

\* the kinds of event a submit leaves
SubmitKinds == { "invalid", "busy", "started" }
\* the most recent step was a submit of the present values
Submitted == event.kind \in SubmitKinds
\* the most recent step was a submit that called the handler
HandlerCalled == event.kind \in { "busy", "started" }

\* the rules of the schema, stated on the values
SatisfiesSchema(v, max) ==
    /\ IsEmail(v.email)
    /\ Len(v.password) >= 8
    /\ v.password = v.passwordCheck
    /\ v.birthdate = Null \/ v.birthdate[1] <= max
    /\ v.agreeTerms
    /\ Len(v.interests) \in 2..3

\* no field other than f carries message m
OnlyOn(f, m) ==
    \A g \in FieldNames \ {f} :
        \A i \in DOMAIN event.errors[g] : event.errors[g][i] # m

\* C1: the handler runs only for values that satisfy the whole schema: a submit
\* of values that break a rule is reported invalid and changes neither loading
\* nor the suspended runs, emits no notification, sets no email error and does
\* not scroll.
C1_HandlerOnlyOnValidValues ==
    [][ (event'.kind \in SubmitKinds /\ ~SatisfiesSchema(values, maxDate))
        => /\ event'.kind = "invalid"
           /\ event'.scrollTo = "" /\ event'.notice = ""
           /\ UNCHANGED <<loading, runs, notified, emailErrors, scrolls>> ]_vars

\* C1 witness: the untouched form was submitted and nothing started
C1_Witness ==
    /\ event.kind = "invalid"
    /\ values = initialValues
    /\ ~loading /\ runs = <<>> /\ Started = 0

\* C2: when password and passwordCheck differ the submit is invalid and the
\* message is on passwordCheck and on no other field; when they are equal
\* passwordCheck carries no error.
C2_CrossFieldEquality ==
    Submitted =>
        IF values.password # values.passwordCheck
        THEN /\ event.kind = "invalid"
             /\ event.errors["passwordCheck"] =
                    <<"The confirmation does not match the password">>
             /\ OnlyOn("passwordCheck", "The confirmation does not match the password")
        ELSE event.errors["passwordCheck"] = <<>>

\* C2 witness: a form whose only fault is the confirmation was submitted
C2_Witness ==
    /\ event.kind = "invalid"
    /\ values.password # values.passwordCheck
    /\ Len(values.password) = Len(values.passwordCheck)
    /\ SatisfiesSchema([values EXCEPT !.passwordCheck = values.password], maxDate)
    /\ event.errors["passwordCheck"] # <<>>
    /\ ~loading

\* C3 as claimed: a submit with the email left empty is invalid and the email
\* field reports 'Enter your email first'.
C3_EmptyEmailRequired ==
    (Submitted /\ values.email = <<>>) =>
        /\ event.kind = "invalid"
        /\ event.errors["email"] = <<"Enter your email first">>

\* C4: a password of fewer than 8 characters makes the submit invalid with the
\* length message on the password field; a password of 8 or more characters
\* carries no error; the handler is called only with 8 or more characters.
C4_PasswordLength ==
    Submitted =>
        /\ Len(values.password) < 8 =>
              /\ event.kind = "invalid"
              /\ event.errors["password"] =
                     <<"Your password should contains at least 8 characters">>
        /\ Len(values.password) >= 8 => event.errors["password"] = <<>>
        /\ HandlerCalled => Len(values.password) >= 8

\* C4 witness: a form whose only fault is a password of 7 characters
C4_Witness ==
    /\ event.kind = "invalid"
    /\ Len(values.password) = 7
    /\ values.passwordCheck = values.password
    /\ IsEmail(values.email) /\ values.agreeTerms /\ Len(values.interests) = 2
    /\ values.birthdate = Null
    /\ event.errors["password"] # <<>>
    /\ ~loading

\* C6: the interests are accepted exactly when 2 or 3 are selected; fewer give
\* the at-least message, more give the up-to message, and either makes the
\* submit invalid.
C6_InterestsCardinality ==
    Submitted =>
        /\ Len(values.interests) < 2 =>
              /\ event.kind = "invalid"
              /\ event.errors["interests"] =
                     <<"You must select at least 2 terms of service">>
        /\ Len(values.interests) > 3 =>
              /\ event.kind = "invalid"
              /\ event.errors["interests"] =
                     <<"You can select up to 3 terms of service">>
        /\ Len(values.interests) \in 2..3 => event.errors["interests"] = <<>>

\* C6 witness: a form whose only fault is 4 selected interests
C6_Witness ==
    /\ event.kind = "invalid"
    /\ Len(values.interests) = 4
    /\ SatisfiesSchema([values EXCEPT !.interests = Selected(3)], maxDate)
    /\ event.errors["interests"] # <<>>
    /\ ~loading

\* C7 as claimed: a null birthdate is accepted, and a birthdate is rejected
\* with 'You cannot be born in the future' exactly when it is later than the
\* time of the validation.
C7_BirthdateAgainstNow ==
    Submitted =>
        IF values.birthdate = Null
        THEN event.errors["birthdate"] = <<>>
        ELSE (event.errors["birthdate"] = <<"You cannot be born in the future">>)
                 <=> (values.birthdate[1] > now)

\* C5: a run that got past the loading guard holds the email that was
\* validated; it ends after the delay and only then, with the success
\* notification and no email error when that email is awesome@cssninja.io, and
\* otherwise with the taken error on the email field, the scroll to #email and
\* no notification.
C5_OutcomeByValidatedEmail ==
    /\ [](\A i \in DOMAIN runs : IsEmail(runs[i].email))
    /\ [][ /\ event'.kind = "started" =>
                runs' = Append(runs, [email |-> values.email, start |-> now])
           /\ (notified' # notified \/ emailErrors' # emailErrors \/ scrolls' # scrolls
                 \/ event'.kind \in { "taken", "success" }) =>
                /\ runs # <<>>
                /\ runs' = Tail(runs)
                /\ (now - Head(runs).start) * TickMs >= 1600
                /\ event'.email = Head(runs).email
                /\ IF Head(runs).email = AwesomeEmail
                   THEN /\ event'.kind = "success"
                        /\ event'.notice = "You have successfully signed up!"
                        /\ notified' = notified + 1
                        /\ event'.errors = NoErrors /\ event'.scrollTo = ""
                        /\ UNCHANGED <<emailErrors, scrolls>>
                   ELSE /\ event'.kind = "taken"
                        /\ event'.errors["email"] =
                               <<"This email is already taken! Tip: use awesome@cssninja.io">>
                        /\ event'.scrollTo = "#email"
                        /\ emailErrors' = emailErrors + 1
                        /\ scrolls' = scrolls + 1
                        /\ event'.notice = ""
                        /\ UNCHANGED notified ]_vars

\* C5 witness: a run ended with the taken error although the form holds
\* awesome@cssninja.io by then
C5_Witness ==
    /\ event.kind = "taken"
    /\ event.email # AwesomeEmail
    /\ values.email = AwesomeEmail
    /\ emailErrors = 1 /\ scrolls = 1 /\ notified = 0
    /\ ~loading

\* C8: at most one run is suspended in its sleep, loading is true exactly while
\* one is, a valid submit that arrives while loading is true changes nothing,
\* and the outcomes never outnumber the runs that were started one at a time.
C8_SingleInFlight ==
    /\ [](Len(runs) <= 1 /\ (loading <=> Len(runs) = 1))
    /\ [][ /\ (event'.kind = "busy") =>
                /\ loading /\ SatisfiesSchema(values, maxDate)
                /\ event'.scrollTo = "" /\ event'.notice = ""
                /\ UNCHANGED <<loading, runs, notified, emailErrors, scrolls>>
           /\ (event'.kind \in SubmitKinds /\ loading) => UNCHANGED <<runs, loading>>
           /\ (notified' + emailErrors') - (notified + emailErrors)
                  \in { 0, Len(runs) - Len(runs') } ]_vars

\* C8 witness: a second valid submit arrived during the sleep of the first
C8_Witness ==
    /\ event.kind = "busy"
    /\ loading /\ Len(runs) = 1
    /\ notified + emailErrors = 0

=============================================================================
